---- MODULE Spec2Model ----
(***************************************************************************)
(* A model of umls_relationship_analysis.py: the relation parser           *)
(* (parse_umls), the cycle detector (detect_cycles with normalize_cycle    *)
(* and validate_cycle), the violation detector                             *)
(* (detect_broader_than_violations) and the driver (main with the two      *)
(* analyze_* entry points).                                                *)
(*                                                                         *)
(* Concept identifiers are strings in the program; here they are the       *)
(* numbers 1..n, ordered as the program's strings are by sorted() and      *)
(* min(). A line of the input file is given by its fields after            *)
(* split("|") and strip().                                                 *)
(***************************************************************************)
EXTENDS Integers, Sequences, FiniteSets, Bags, TLC

\* ---------------------------------------------------------------- bounds
\* Lines of the input file.
MaxLines == 2
\* Concept identifiers that occur in the input file.
NumConcepts == 2
\* Nodes of the graphs handed to the two detectors.
NumNodes == 3

VARIABLES
    pc,                  \* the place the program is at
    args_type,           \* main: args.type
    input_exists,        \* whether args.input names an existing file
    file,                \* the lines of the input file
    lineno,              \* parse_umls: lines of the file consumed by the loop
    parent_child_edges,  \* parse_umls: set of oriented CHD/PAR edges
    broader_than_edges,  \* parse_umls: set of oriented RB/RN edges
    relationship_types,  \* parse_umls: set of codes seen
    duplicate_edges,     \* parse_umls: Counter, oriented edge -> count
    self_loops,          \* parse_umls: set of (concept, code)
    parse_result,        \* parse_umls: the returned tuple
    graph,               \* the nx.DiGraph under analysis: [nodes, edges]
    visited,             \* detect_cycles
    rec_stack,           \* detect_cycles
    unique_cycles,       \* detect_cycles
    detailed_cycles,     \* detect_cycles: list of [nodes, paths]
    path,                \* detect_cycles: the one list shared by all dfs_cycle calls
    frames,              \* detect_cycles: the active dfs_cycle calls, [node, next]
    top_idx,             \* detect_cycles: position of the top-level for loop
    descendants_dict,    \* detect_broader_than_violations
    sources_done,        \* detect_broader_than_violations: nodes the outer loop has done
    violations,          \* detect_broader_than_violations: the entries appended
    analysis,            \* main: the analyze_* call in progress
    executed,            \* main: the analyze_* calls entered so far
    failed,              \* main: the analyze_* calls that raised
    log                  \* main: what the logger was given

mainVars  == <<args_type, input_exists, analysis, executed, failed, log>>
parseVars == <<lineno, parent_child_edges, broader_than_edges, relationship_types,
               duplicate_edges, self_loops, parse_result>>
cycleVars == <<visited, rec_stack, unique_cycles, detailed_cycles, path, frames, top_idx>>
violVars  == <<descendants_dict, sources_done, violations>>
vars == <<pc, file, graph, mainVars, parseVars, cycleVars, violVars>>

\* ------------------------------------------------------------ parse_umls

Concepts == 1..NumConcepts

\* The relation codes of main's table that the input uses: the four the parser
\* orients, and one it ignores.
Rels == {"CHD", "PAR", "RB", "RN", "RO"}

\* A line whose split has the five fields the parser reads; fields 1 and 2 are
\* not read.
RecordLine(source, rel, target) ==
    [kind |-> "fields", parts |-> <<source, "AUI1", "STYPE1", rel, target>>]

\* The lines a file is made of: a comment, a blank line, a line with fewer than
\* five fields, and every record over Concepts and Rels.
Lines ==
    {[kind |-> "comment", parts |-> <<>>], [kind |-> "blank", parts |-> <<>>],
     [kind |-> "fields", parts |-> <<1, "AUI1", "STYPE1", "PAR">>]}
    \cup {RecordLine(s, r, t) : s \in Concepts, r \in Rels, t \in Concepts}

Files == UNION {[1..n -> Lines] : n \in 0..MaxLines}

\* Lines 48-49 and 53-54: the lines the loop passes over.
Skipped(line) ==
    \/ line.kind = "comment"
    \/ line.kind = "blank"
    \/ Len(line.parts) < 5

Source(line) == line.parts[1]
Rel(line)    == line.parts[4]
Target(line) == line.parts[5]

IsSelfLoopNever(source, target) == FALSE

\* Line 63.
IsSelfLoop(source, target) == source = target

OrientAsWritten(source, rel, target) == <<source, target>>

\* Lines 69-77.
Orient(source, rel, target) ==
    CASE rel = "CHD" -> <<target, source>>
      [] rel = "PAR" -> <<source, target>>
      [] rel = "RB"  -> <<source, target>>
      [] rel = "RN"  -> <<target, source>>

IncrementOverwrite(counter, key) ==
    [k \in DOMAIN counter \cup {key} |-> IF k = key THEN 1 ELSE counter[k]]

\* Line 80: Counter's += 1, a missing key counting as 0.
Increment(counter, key) ==
    IF key \in DOMAIN counter
    THEN [counter EXCEPT ![key] = @ + 1]
    ELSE [k \in DOMAIN counter \cup {key} |-> IF k = key THEN 1 ELSE counter[k]]

Range(s) == {s[i] : i \in DOMAIN s}

\* list(s): the elements of a set, each once, in an order the code does not fix.
ListsOf(S) ==
    {l \in [1..Cardinality(S) -> S] : \A i, j \in 1..Cardinality(S) : l[i] = l[j] => i = j}

NoResult == [returned |-> FALSE]

\* The parser's variables before parse_umls is called.
ParseFresh ==
    /\ lineno = 0
    /\ parent_child_edges = {}
    /\ broader_than_edges = {}
    /\ relationship_types = {}
    /\ duplicate_edges = <<>>
    /\ self_loops = {}
    /\ parse_result = NoResult

\* Lines 33-44: the collections start empty, and the file is looked for before
\* anything is read: a missing file raises FileNotFoundError.
ParseOpen ==
    /\ pc = "parse_open"
    /\ lineno' = 0
    /\ parent_child_edges' = {}
    /\ broader_than_edges' = {}
    /\ relationship_types' = {}
    /\ duplicate_edges' = <<>>
    /\ self_loops' = {}
    /\ parse_result' = NoResult
    /\ pc' = IF input_exists THEN "parse_loop" ELSE "parse_raised"
    /\ UNCHANGED <<file, graph, mainVars, cycleVars, violVars>>

\* Lines 47-91: one pass of the loop over the file's lines. The edge of line 79
\* is a pair, which is never false, and nothing in the try block raises.
ParseLine ==
    /\ pc = "parse_loop"
    /\ lineno < Len(file)
    /\ lineno' = lineno + 1
    /\ LET line == file[lineno + 1] IN
       IF Skipped(line)
       THEN UNCHANGED <<parent_child_edges, broader_than_edges, relationship_types,
                        duplicate_edges, self_loops>>
       ELSE LET source == Source(line)
                target == Target(line)
                rel    == Rel(line)
            IN  /\ relationship_types' = relationship_types \cup {rel}
                /\ IF IsSelfLoop(source, target)
                   THEN /\ self_loops' = self_loops \cup {<<source, rel>>}
                        /\ UNCHANGED <<parent_child_edges, broader_than_edges,
                                       duplicate_edges>>
                   ELSE /\ UNCHANGED self_loops
                        /\ IF rel \in {"CHD", "PAR", "RB", "RN"}
                           THEN LET edge == Orient(source, rel, target) IN
                                /\ duplicate_edges' = Increment(duplicate_edges, edge)
                                /\ IF rel \in {"CHD", "PAR"}
                                   THEN /\ parent_child_edges' = parent_child_edges \cup {edge}
                                        /\ UNCHANGED broader_than_edges
                                   ELSE /\ broader_than_edges' = broader_than_edges \cup {edge}
                                        /\ UNCHANGED parent_child_edges
                           ELSE UNCHANGED <<parent_child_edges, broader_than_edges,
                                            duplicate_edges>>
    /\ UNCHANGED <<pc, file, graph, mainVars, parse_result, cycleVars, violVars>>

\* Lines 93-99: the loop is over, the tuple is returned.
ParseReturn ==
    /\ pc = "parse_loop"
    /\ lineno = Len(file)
    /\ \E pcl \in ListsOf(parent_child_edges), btl \in ListsOf(broader_than_edges) :
          parse_result' = [returned |-> TRUE,
                           parent_child_edges |-> pcl,
                           broader_than_edges |-> btl,
                           relationship_types |-> relationship_types,
                           duplicate_edges |-> duplicate_edges,
                           self_loops |-> self_loops]
    /\ pc' = "parse_returned"
    /\ UNCHANGED <<file, graph, mainVars, lineno, parent_child_edges, broader_than_edges,
                   relationship_types, duplicate_edges, self_loops, cycleVars, violVars>>

\* ------------------------------------------------------------ the graphs

Nodes == 1..NumNodes

\* The edges parse_umls can return over a set of concepts: every ordered pair
\* but those line 63 keeps out.
ParserEdges(N) == {e \in N \X N : ~IsSelfLoop(e[1], e[2])}

\* Lines 428-429 and 489-490: nx.DiGraph().add_edges_from(edges). The nodes are
\* the endpoints of the edges.
DiGraph(edges) ==
    [nodes |-> {e[1] : e \in edges} \cup {e[2] : e \in edges}, edges |-> edges]

Graphs == {DiGraph(E) : E \in SUBSET ParserEdges(Nodes)}

\* graph.neighbors(node): the successors of node.
neighbors(g, node) == {e[2] : e \in {x \in g.edges : x[1] = node}}

Min(S) == CHOOSE m \in S : \A x \in S : m <= x

\* sorted(S), ascending.
RECURSIVE sorted(_)
sorted(S) == IF S = {} THEN <<>> ELSE <<Min(S)>> \o sorted(S \ {Min(S)})

\* list.index(x): the first position of x (1-based here).
index(list, x) ==
    CHOOSE i \in 1..Len(list) : list[i] = x /\ \A j \in 1..(i - 1) : list[j] /= x

\* ---------------------------------------------------------- detect_cycles

normalize_cycle_no_wrap(cycle) ==
    SubSeq(cycle, index(cycle, Min(Range(cycle))), Len(cycle))

\* Lines 382-383: cycle[min_idx:] + cycle[:min_idx].
normalize_cycle(cycle) ==
    LET min_idx == index(cycle, Min(Range(cycle)))
    IN  SubSeq(cycle, min_idx, Len(cycle)) \o SubSeq(cycle, 1, min_idx - 1)

\* Lines 400-405.
validate_cycle(g, cycle) ==
    \A i \in 1..Len(cycle) : <<cycle[i], cycle[(i % Len(cycle)) + 1]>> \in g.edges

rec_stack_add_forgotten(stack, node) == stack

\* Line 157: rec_stack.add(node).
rec_stack_add(stack, node) == stack \cup {node}

\* Lines 143-149: the entry appended for a cycle.
cycle_info(cycle) ==
    [nodes |-> cycle,
     paths |-> [i \in 1..Len(cycle) |-> <<cycle[i], cycle[(i % Len(cycle)) + 1]>>]]

\* Lines 133-158: a call dfs_cycle(node, path) up to its loop over the
\* neighbours; call_path is the list the caller hands over, which the call
\* changes in place, and callers is the stack of the calls that stay active.
\* The call returns at once on a node of rec_stack (recording the cycle) or of
\* visited, and otherwise becomes the innermost active call.
dfs_cycle(node, call_path, callers) ==
    IF node \in rec_stack
    THEN LET cycle_start == index(call_path, node)
             cycle == SubSeq(call_path, cycle_start, Len(call_path))
             normalized == normalize_cycle(cycle)
         IN  /\ IF normalized \notin unique_cycles /\ validate_cycle(graph, cycle)
                THEN /\ unique_cycles' = unique_cycles \cup {normalized}
                     /\ detailed_cycles' = Append(detailed_cycles, cycle_info(cycle))
                ELSE UNCHANGED <<unique_cycles, detailed_cycles>>
             /\ frames' = callers
             /\ path' = call_path
             /\ UNCHANGED <<visited, rec_stack>>
    ELSE IF node \in visited
    THEN /\ frames' = callers
         /\ path' = call_path
         /\ UNCHANGED <<visited, rec_stack, unique_cycles, detailed_cycles>>
    ELSE /\ visited' = visited \cup {node}
         /\ rec_stack' = rec_stack_add(rec_stack, node)
         /\ path' = Append(call_path, node)
         /\ frames' = Append(callers, [node |-> node,
                                       todo |-> sorted(neighbors(graph, node))])
         /\ UNCHANGED <<unique_cycles, detailed_cycles>>

\* Line 120.
sorted_nodes == sorted(graph.nodes)

\* Lines 168-173: one pass of the top-level loop.
DetectCyclesTop ==
    /\ pc = "detect_cycles"
    /\ frames = <<>>
    /\ top_idx < Len(sorted_nodes)
    /\ top_idx' = top_idx + 1
    /\ LET node == sorted_nodes[top_idx + 1] IN
       IF node \notin visited
       THEN dfs_cycle(node, <<>>, <<>>)
       ELSE UNCHANGED <<visited, rec_stack, unique_cycles, detailed_cycles, path, frames>>
    /\ UNCHANGED <<pc, file, graph, mainVars, parseVars, violVars>>

\* Lines 161-162: the innermost active call takes its next neighbour and calls
\* dfs_cycle on it.
DfsNeighbor ==
    /\ pc = "detect_cycles"
    /\ frames /= <<>>
    /\ LET top == frames[Len(frames)] IN
       /\ top.todo /= <<>>
       /\ dfs_cycle(Head(top.todo), path,
                    [frames EXCEPT ![Len(frames)].todo = Tail(top.todo)])
    /\ UNCHANGED <<pc, file, graph, mainVars, parseVars, top_idx, violVars>>

\* Lines 164-165: the innermost active call is through its neighbours.
DfsReturn ==
    /\ pc = "detect_cycles"
    /\ frames /= <<>>
    /\ LET top == frames[Len(frames)] IN
       /\ top.todo = <<>>
       /\ path' = SubSeq(path, 1, Len(path) - 1)
       /\ rec_stack' = rec_stack \ {top.node}
       /\ frames' = SubSeq(frames, 1, Len(frames) - 1)
    /\ UNCHANGED <<pc, file, graph, mainVars, parseVars, visited, unique_cycles,
                   detailed_cycles, top_idx, violVars>>

\* Lines 175-179.
DetectCyclesReturn ==
    /\ pc = "detect_cycles"
    /\ frames = <<>>
    /\ top_idx = Len(sorted_nodes)
    /\ pc' = "cycles_returned"
    /\ UNCHANGED <<file, graph, mainVars, parseVars, cycleVars, violVars>>

\* ----------------------------------------- detect_broader_than_violations

\* The nodes a breadth-first search from the frontier adds to seen.
RECURSIVE bfs(_, _, _)
bfs(g, frontier, seen) ==
    IF frontier = {}
    THEN seen
    ELSE LET next == UNION {neighbors(g, n) : n \in frontier} \ seen
         IN  bfs(g, next, seen \cup next)

descendants_with_source(g, source) == bfs(g, {source}, {source})

\* Line 198: nx.descendants(graph, node), the nodes reachable from node, node
\* itself left out.
descendants(g, source) == bfs(g, {source}, {source}) \ {source}

\* The paths of g that go on from prefix to target and pass no node twice.
RECURSIVE PathsOnward(_, _, _)
PathsOnward(g, prefix, target) ==
    IF prefix[Len(prefix)] = target
    THEN {prefix}
    ELSE UNION {PathsOnward(g, Append(prefix, n), target) :
                   n \in neighbors(g, prefix[Len(prefix)]) \ Range(prefix)}

PathsBetween(g, source, target) == PathsOnward(g, <<source>>, target)

\* Lines 211-220: nx.shortest_path(graph, source, target) returns one of the
\* paths with the fewest nodes, which one is the library's choice; with no path
\* it raises NetworkXNoPath, and the set is empty.
shortest_path(g, source, target) ==
    LET all == PathsBetween(g, source, target)
    IN  {p \in all : \A q \in all : Len(p) <= Len(q)}

circular_path_joint_kept(path_to_target, path_back_to_source) ==
    path_to_target \o path_back_to_source

\* Line 225: path_to_target + path_back_to_source[1:].
circular_path(path_to_target, path_back_to_source) ==
    path_to_target \o Tail(path_back_to_source)

\* Lines 221-227: the entries the code may append for (source, target), one
\* for each pair of shortest paths the library may return.
violation_entries(g, source, target) ==
    {[source |-> source,
      target |-> target,
      circular_path |-> circular_path(path_to_target, path_back_to_source)] :
     path_to_target \in shortest_path(g, source, target),
     path_back_to_source \in shortest_path(g, target, source)}

\* The sets of entries one pass over the targets may append: one entry for each
\* target.
RECURSIVE entries_of_pass(_, _, _)
entries_of_pass(g, source, targets) ==
    IF targets = {}
    THEN {{}}
    ELSE LET target == CHOOSE t \in targets : TRUE
         IN  {rest \cup {entry} :
                 rest \in entries_of_pass(g, source, targets \ {target}),
                 entry \in violation_entries(g, source, target)}

\* Lines 196-200.
ComputeDescendants ==
    /\ pc = "detect_violations"
    /\ descendants_dict' = [node \in graph.nodes |-> descendants(graph, node)]
    /\ pc' = "violations_loop"
    /\ UNCHANGED <<file, graph, mainVars, parseVars, cycleVars, sources_done, violations>>

\* Lines 203-229: one pass of the loop over graph.nodes, the inner loop over
\* the source's descendants included. The order of graph.nodes and of a set's
\* elements is not fixed by the code: any node not yet done may be next, and
\* the list of violations is kept as a bag of its entries.
ViolationsOfSource ==
    /\ pc = "violations_loop"
    /\ \E source \in graph.nodes \ sources_done :
          LET reachable == descendants_dict[source]
              mutual == {target \in reachable : source \in descendants_dict[target]}
              found == {target \in mutual :
                           /\ shortest_path(graph, source, target) /= {}
                           /\ shortest_path(graph, target, source) /= {}}
          IN  /\ \E appended \in entries_of_pass(graph, source, found) :
                    violations' = violations (+) SetToBag(appended)
              /\ sources_done' = sources_done \cup {source}
    /\ UNCHANGED <<pc, file, graph, mainVars, parseVars, cycleVars, descendants_dict>>

\* Lines 231-235.
ViolationsReturn ==
    /\ pc = "violations_loop"
    /\ sources_done = graph.nodes
    /\ pc' = "violations_returned"
    /\ UNCHANGED <<file, graph, mainVars, parseVars, cycleVars, violVars>>

\* ------------------------------------------------------------------ main

\* Line 549: the choices of --type.
AnalysisTypes == {"parent-child", "broader-than", "both"}

\* Lines 408-423 and 469-485: an analyze_* function is entered; it logs that it
\* starts and calls parse_umls.
EnterAnalysis(name) ==
    /\ analysis' = name
    /\ executed' = executed \cup {name}
    /\ log' = Append(log, <<"Starting analysis", name>>)
    /\ pc' = "parse_open"

\* Lines 561-563: inside the try, the first if.
MainParentChild ==
    /\ pc = "main_try"
    /\ IF args_type \in {"parent-child", "both"}
       THEN EnterAnalysis("parent-child")
       ELSE /\ pc' = "main_second_if"
            /\ UNCHANGED <<analysis, executed, log>>
    /\ UNCHANGED <<args_type, input_exists, failed, file, graph, parseVars, cycleVars,
                   violVars>>

\* Lines 428-433: analyze_parent_child_relations builds its graph from the
\* parent-child edges and calls detect_cycles.
BuildParentChildGraph ==
    /\ pc = "parse_returned"
    /\ analysis = "parent-child"
    /\ graph' = DiGraph(Range(parse_result.parent_child_edges))
    /\ pc' = "detect_cycles"
    /\ UNCHANGED <<file, mainVars, parseVars, cycleVars, violVars>>

\* Lines 439-466 and 564-572: the statistics are collected and
\* save_results_to_csv writes the files, which the file system may refuse
\* (OSError); if it does not, main logs the number of cycles.
FinishParentChild ==
    /\ pc = "cycles_returned"
    /\ analysis = "parent-child"
    /\ \E saved \in BOOLEAN :
          IF saved
          THEN /\ log' = Append(log, <<"Found cycles", Len(detailed_cycles)>>)
               /\ analysis' = "none"
               /\ pc' = "main_second_if"
          ELSE /\ pc' = "save_raised"
               /\ UNCHANGED <<log, analysis>>
    /\ UNCHANGED <<args_type, input_exists, executed, failed, file, graph, parseVars,
                   cycleVars, violVars>>

\* Lines 574-577: inside the same try, the second if.
MainBroaderThan ==
    /\ pc = "main_second_if"
    /\ IF args_type \in {"broader-than", "both"}
       THEN EnterAnalysis("broader-than")
       ELSE /\ pc' = "main_done"
            /\ UNCHANGED <<analysis, executed, log>>
    /\ UNCHANGED <<args_type, input_exists, failed, file, graph, parseVars, cycleVars,
                   violVars>>

\* Lines 489-496: analyze_broader_than_relations builds its graph from the
\* broader-than edges and calls detect_broader_than_violations.
BuildBroaderThanGraph ==
    /\ pc = "parse_returned"
    /\ analysis = "broader-than"
    /\ graph' = DiGraph(Range(parse_result.broader_than_edges))
    /\ pc' = "detect_violations"
    /\ UNCHANGED <<file, mainVars, parseVars, cycleVars, violVars>>

\* Lines 500-529 and 578-586: as FinishParentChild, for the violations.
FinishBroaderThan ==
    /\ pc = "violations_returned"
    /\ analysis = "broader-than"
    /\ \E saved \in BOOLEAN :
          IF saved
          THEN /\ log' = Append(log, <<"Found violations", BagCardinality(violations)>>)
               /\ analysis' = "none"
               /\ pc' = "main_done"
          ELSE /\ pc' = "save_raised"
               /\ UNCHANGED <<log, analysis>>
    /\ UNCHANGED <<args_type, input_exists, executed, failed, file, graph, parseVars,
                   cycleVars, violVars>>

\* Lines 588-590: an exception raised anywhere inside the try is logged and
\* raised again; main is over.
MainExcept ==
    /\ pc \in {"parse_raised", "save_raised"}
    /\ analysis /= "none"
    /\ failed' = failed \cup {analysis}
    /\ log' = Append(log, <<"Error during analysis", analysis>>)
    /\ pc' = "main_raised"
    /\ UNCHANGED <<args_type, input_exists, analysis, executed, file, graph, parseVars,
                   cycleVars, violVars>>

\* ---------------------------------------------------------------- idle parts

NoGraph == [nodes |-> {}, edges |-> {}]

CyclesIdle ==
    /\ visited = {}
    /\ rec_stack = {}
    /\ unique_cycles = {}
    /\ detailed_cycles = <<>>
    /\ path = <<>>
    /\ frames = <<>>
    /\ top_idx = 0

ViolationsIdle ==
    /\ descendants_dict = <<>>
    /\ sources_done = {}
    /\ violations = EmptyBag

MainIdle ==
    /\ args_type = "none"
    /\ analysis = "none"
    /\ executed = {}
    /\ failed = {}
    /\ log = <<>>

\* ------------------------------------------------- parse_umls on its own

InitParse ==
    /\ pc = "parse_open"
    /\ file \in Files
    /\ input_exists \in BOOLEAN
    /\ graph = NoGraph
    /\ ParseFresh
    /\ CyclesIdle
    /\ ViolationsIdle
    /\ MainIdle

NextParse == ParseOpen \/ ParseLine \/ ParseReturn

SpecParse == InitParse /\ [][NextParse]_vars

\* ---------------------------------------------- detect_cycles on its own

InitCycles ==
    /\ pc = "detect_cycles"
    /\ graph \in Graphs
    /\ file = <<>>
    /\ input_exists = TRUE
    /\ ParseFresh
    /\ CyclesIdle
    /\ ViolationsIdle
    /\ MainIdle

NextCycles == DetectCyclesTop \/ DfsNeighbor \/ DfsReturn \/ DetectCyclesReturn

SpecCycles == InitCycles /\ [][NextCycles]_vars

\* ----------------------------- detect_broader_than_violations on its own

InitViolations ==
    /\ pc = "detect_violations"
    /\ graph \in Graphs
    /\ file = <<>>
    /\ input_exists = TRUE
    /\ ParseFresh
    /\ CyclesIdle
    /\ ViolationsIdle
    /\ MainIdle

NextViolations == ComputeDescendants \/ ViolationsOfSource \/ ViolationsReturn

SpecViolations == InitViolations /\ [][NextViolations]_vars

\* ------------------------------------------------------- the whole program

Init ==
    /\ pc = "main_try"
    /\ args_type \in AnalysisTypes
    /\ input_exists \in BOOLEAN
    /\ file \in Files
    /\ graph = NoGraph
    /\ analysis = "none"
    /\ executed = {}
    /\ failed = {}
    /\ log = <<>>
    /\ ParseFresh
    /\ CyclesIdle
    /\ ViolationsIdle

Next ==
    \/ MainParentChild
    \/ ParseOpen
    \/ ParseLine
    \/ ParseReturn
    \/ BuildParentChildGraph
    \/ DetectCyclesTop
    \/ DfsNeighbor
    \/ DfsReturn
    \/ DetectCyclesReturn
    \/ FinishParentChild
    \/ MainBroaderThan
    \/ BuildBroaderThanGraph
    \/ ComputeDescendants
    \/ ViolationsOfSource
    \/ ViolationsReturn
    \/ FinishBroaderThan
    \/ MainExcept

Spec == Init /\ [][Next]_vars

\* ------------------------------------------------ properties of parse_umls

\* The lines the loop has consumed that it did not pass over.
IsRecordAt(i) == ~Skipped(file[i])

\* The consumed records with source /= target and the given code and fields.
RecordsWith(rel, source, target) ==
    {i \in 1..lineno : /\ IsRecordAt(i)
                       /\ Source(file[i]) /= Target(file[i])
                       /\ Rel(file[i]) = rel
                       /\ Source(file[i]) = source
                       /\ Target(file[i]) = target}

\* C5: at every point of parse_umls, (u, v) is a parent-child edge iff some
\* consumed record with source /= target is PAR (u, v) or CHD (v, u), and a
\* broader-than edge iff some such record is RB (u, v) or RN (v, u); no other
\* pair is in either set, and the returned lists hold exactly these sets.
C5_OrientationCorrect ==
    /\ \A e \in parent_child_edges \cup broader_than_edges : e \in Concepts \X Concepts
    /\ \A u, v \in Concepts :
          /\ <<u, v>> \in parent_child_edges
                <=> (RecordsWith("PAR", u, v) \cup RecordsWith("CHD", v, u)) /= {}
          /\ <<u, v>> \in broader_than_edges
                <=> (RecordsWith("RB", u, v) \cup RecordsWith("RN", v, u)) /= {}
    /\ parse_result.returned =>
          /\ Range(parse_result.parent_child_edges) = parent_child_edges
          /\ Range(parse_result.broader_than_edges) = broader_than_edges

\* A CHD record and an RN record were consumed and each gave the reversed edge.
C5_Witness ==
    /\ pc = "parse_returned"
    /\ lineno = 2
    /\ file[1] = RecordLine(2, "CHD", 1)
    /\ file[2] = RecordLine(2, "RN", 1)
    /\ parent_child_edges = {<<1, 2>>}
    /\ broader_than_edges = {<<1, 2>>}

\* C6: a step of the loop that consumes a record with source = target puts
\* (source, code) in self_loops and the code in relationship_types, and leaves
\* both edge sets and the counter as they were; every consumed such record
\* stays in self_loops, and neither edge set ever holds a pair (x, x).
C6_SelfLoopExclusion ==
    [][/\ (/\ pc = "parse_loop"
           /\ lineno' = lineno + 1
           /\ IsRecordAt(lineno')
           /\ Source(file[lineno']) = Target(file[lineno']))
          => /\ <<Source(file[lineno']), Rel(file[lineno'])>> \in self_loops'
             /\ Rel(file[lineno']) \in relationship_types'
             /\ UNCHANGED <<parent_child_edges, broader_than_edges, duplicate_edges>>
       /\ \A i \in 1..lineno' :
             (IsRecordAt(i) /\ Source(file[i]) = Target(file[i]))
                => <<Source(file[i]), Rel(file[i])>> \in self_loops'
       /\ \A x \in Concepts :
             <<x, x>> \notin (parent_child_edges' \cup broader_than_edges'
                              \cup DOMAIN duplicate_edges')]_vars

\* Scenario 3: the one record (1, 1, "CHD") was consumed.
C6_Witness ==
    /\ pc = "parse_returned"
    /\ file = <<RecordLine(1, "CHD", 1)>>
    /\ self_loops = {<<1, "CHD">>}
    /\ relationship_types = {"CHD"}
    /\ parent_child_edges = {}
    /\ duplicate_edges = <<>>

\* C7: the counter's keys are the edges of the two sets; the count of (u, v) is
\* the number of consumed records with source /= target that are PAR or RB
\* (u, v) or CHD or RN (v, u); a returned edge list holds no edge twice.
C7_OccurrenceCount ==
    /\ DOMAIN duplicate_edges = parent_child_edges \cup broader_than_edges
    /\ \A u, v \in Concepts :
          LET n == Cardinality(RecordsWith("PAR", u, v) \cup RecordsWith("RB", u, v)
                               \cup RecordsWith("CHD", v, u) \cup RecordsWith("RN", v, u))
          IN  IF <<u, v>> \in DOMAIN duplicate_edges
              THEN duplicate_edges[<<u, v>>] = n
              ELSE n = 0
    /\ parse_result.returned =>
          /\ parse_result.duplicate_edges = duplicate_edges
          /\ \A l \in {parse_result.parent_child_edges, parse_result.broader_than_edges} :
                \A i, j \in 1..Len(l) : l[i] = l[j] => i = j

\* Scenario 5 across the two categories: PAR (1, 2) and RN (2, 1) both count
\* for (1, 2), which each edge list holds once.
C7_Witness ==
    /\ pc = "parse_returned"
    /\ file = <<RecordLine(1, "PAR", 2), RecordLine(2, "RN", 1)>>
    /\ duplicate_edges[<<1, 2>>] = 2
    /\ parse_result.parent_child_edges = <<<<1, 2>>>>
    /\ parse_result.broader_than_edges = <<<<1, 2>>>>

\* --------------------------------------------- properties of detect_cycles

Injective(s) == \A i, j \in 1..Len(s) : s[i] = s[j] => i = j

\* The simple cycles of g as node sequences: distinct nodes, every consecutive
\* pair and the pair last-first an edge. Each cycle is here once per rotation.
SimpleCycles(g) ==
    {c \in UNION {[1..n -> g.nodes] : n \in 1..Cardinality(g.nodes)} :
        /\ Injective(c)
        /\ \A i \in 1..Len(c) : <<c[i], c[IF i = Len(c) THEN 1 ELSE i + 1]>> \in g.edges}

\* c read from its (k+1)-th node on, around the cycle.
Rotation(c, k) == [i \in 1..Len(c) |-> c[((i - 1 + k) % Len(c)) + 1]]

IsRotation(a, b) ==
    /\ Len(a) = Len(b)
    /\ \E k \in 0..(Len(b) - 1) : a = Rotation(b, k)

Emitted == {detailed_cycles[i].nodes : i \in 1..Len(detailed_cycles)}

\* C1: when detect_cycles returns, every simple cycle of the graph has exactly
\* one rotation among the 'nodes' of the returned cycles.
C1_EveryCycleReturned ==
    pc = "cycles_returned" =>
        \A c \in SimpleCycles(graph) :
            Cardinality({i \in 1..Len(detailed_cycles) :
                            IsRotation(detailed_cycles[i].nodes, c)}) = 1

\* C3: every emitted cycle has at least two nodes, all distinct, and each
\* consecutive pair of them, and the pair last-first, is an edge of the graph.
C3_EmittedCyclesAreSimple ==
    \A i \in 1..Len(detailed_cycles) :
        LET c == detailed_cycles[i].nodes IN
        /\ Len(c) >= 2
        /\ Injective(c)
        /\ \A j \in 1..(Len(c) - 1) : <<c[j], c[j + 1]>> \in graph.edges
        /\ <<c[Len(c)], c[1]>> \in graph.edges

\* The search returned a cycle of two nodes and one of three.
C3_Witness ==
    /\ pc = "cycles_returned"
    /\ \E i, j \in 1..Len(detailed_cycles) :
          Len(detailed_cycles[i].nodes) = 2 /\ Len(detailed_cycles[j].nodes) = 3

\* C4: for every simple cycle of the graph and each of its rotations,
\* normalize_cycle gives one and the same tuple, which starts at the least
\* node and is a rotation of the cycle; and at every point of the search no
\* two emitted cycles are rotations of one another.
C4_CanonicalDedup ==
    /\ \A c \in SimpleCycles(graph) :
          /\ normalize_cycle(c)[1] = Min(Range(c))
          /\ IsRotation(normalize_cycle(c), c)
          /\ \A k \in 0..(Len(c) - 1) : normalize_cycle(Rotation(c, k)) = normalize_cycle(c)
    /\ \A i, j \in 1..Len(detailed_cycles) :
          i /= j => ~IsRotation(detailed_cycles[i].nodes, detailed_cycles[j].nodes)
    /\ unique_cycles = {normalize_cycle(c) : c \in Emitted}

\* Two cycles were emitted, one of them not from its least node on.
C4_Witness ==
    /\ Len(detailed_cycles) = 2
    /\ \E c \in Emitted : normalize_cycle(c) /= c

\* C10: detect_cycles returns no cycle iff the graph has none; and a call that
\* goes on to its neighbours does so on a node that was not visited before,
\* which stays visited from then on.
C10_EmptyIffAcyclic ==
    [][/\ pc' = "cycles_returned" => (detailed_cycles' = <<>> <=> SimpleCycles(graph') = {})
       /\ visited \subseteq visited'
       /\ Len(frames') > Len(frames) =>
             /\ frames'[Len(frames')].node \notin visited
             /\ frames'[Len(frames')].node \in visited']_vars

\* A graph with two cycles, whose node 3 the search reaches a second time when
\* it is already visited: one cycle was returned.
C10_Witness ==
    /\ pc = "cycles_returned"
    /\ graph.edges = {<<1, 2>>, <<2, 3>>, <<3, 1>>, <<1, 3>>}
    /\ Len(detailed_cycles) = 1

\* ---------------------------- properties of detect_broader_than_violations

\* How often the pair (source, target) is among the entries of violations.
TimesReported(source, target) ==
    LET entries == {v \in BagToSet(violations) : v.source = source /\ v.target = target}
        RECURSIVE Sum(_)
        Sum(S) == IF S = {} THEN 0
                  ELSE LET v == CHOOSE x \in S : TRUE
                       IN  CopiesIn(v, violations) + Sum(S \ {v})
    IN  Sum(entries)

\* target can be reached from source along one edge or more.
Reaches(g, source, target) ==
    \E mid \in g.nodes :
        /\ <<source, mid>> \in g.edges
        /\ PathsBetween(g, mid, target) /= {}

\* C2: when the detector returns, the pairs (source, target) of its entries
\* are exactly the ordered pairs of distinct nodes each reachable from the
\* other, each reported once; so (a, b) is reported iff (b, a) is, and no pair
\* (a, a) is; and at no point is a pair reported twice.
C2_ExactlyMutualPairs ==
    /\ \A v \in BagToSet(violations) :
          /\ v.source /= v.target
          /\ TimesReported(v.source, v.target) = 1
          /\ Reaches(graph, v.source, v.target)
          /\ Reaches(graph, v.target, v.source)
    /\ pc = "violations_returned" =>
          \A a, b \in graph.nodes :
             /\ TimesReported(a, b) =
                   (IF a /= b /\ Reaches(graph, a, b) /\ Reaches(graph, b, a) THEN 1 ELSE 0)
             /\ TimesReported(a, b) = TimesReported(b, a)

\* Scenario 4 and more: a pair of nodes joined both ways and a third node that
\* only one of them reaches; the two orders of the pair are all that is reported.
C2_Witness ==
    /\ pc = "violations_returned"
    /\ graph.edges = {<<1, 2>>, <<2, 1>>, <<2, 3>>}
    /\ TimesReported(1, 2) = 1
    /\ TimesReported(2, 1) = 1
    /\ TimesReported(2, 3) = 0
    /\ BagCardinality(violations) = 2

\* The least number of edges of a walk from source to target, target reachable
\* from source: the level at which a breadth-first search meets it.
RECURSIVE Level(_, _, _, _)
Level(g, frontier, target, k) ==
    IF target \in frontier THEN k
    ELSE IF k > Cardinality(g.nodes) THEN -1
    ELSE Level(g, UNION {neighbors(g, n) : n \in frontier}, target, k + 1)

Dist(g, source, target) == Level(g, {source}, target, 0)

\* C9: the circular_path of every entry starts and ends at source, each
\* consecutive pair of its nodes is an edge, it is a shortest path from source
\* to target followed by a shortest path from target to source, target being
\* once at the joint, and it has dist(source, target) + dist(target, source) + 1
\* nodes.
C9_CircularPath ==
    \A v \in BagToSet(violations) :
        LET p == v.circular_path
            d1 == Dist(graph, v.source, v.target)
            d2 == Dist(graph, v.target, v.source)
        IN  /\ Len(p) = d1 + d2 + 1
            /\ p[1] = v.source
            /\ p[Len(p)] = v.source
            /\ p[d1 + 1] = v.target
            /\ \A i \in 1..(Len(p) - 1) : <<p[i], p[i + 1]>> \in graph.edges
            /\ \A i \in 2..d1 : p[i] /= v.target
            /\ \A i \in (d1 + 2)..(Len(p) - 1) : p[i] /= v.source

\* A pair joined both ways gave a path of three nodes, and a pair joined one
\* way by an edge and back through a third node gave one of four.
C9_Witness ==
    /\ pc = "violations_returned"
    /\ \E v, w \in BagToSet(violations) :
          /\ v.circular_path = <<1, 2, 1>>
          /\ w.circular_path = <<1, 3, 2, 1>>

\* ------------------------------------------------------ properties of main

\* C8: when both analyses are asked for and main is over, an analysis that
\* raised has not kept the other from being executed.
C8_FailureDoesNotBlockTheOther ==
    (args_type = "both" /\ pc \in {"main_done", "main_raised"}) =>
        \A a \in failed : ({"parent-child", "broader-than"} \ {a}) \subseteq executed

====
